---------------------------- MODULE Spec2Model ----------------------------
(***************************************************************************)
(* A model of script.js: the CI script that scans the .jsx files changed   *)
(* by a push for <DraftImage> elements and appends a row for every new one *)
(* to the shared "DraftImage" sheet.                                       *)
(*                                                                         *)
(* Several runs of the script (one per push) work against one remote       *)
(* sheet.  A run is the chain of awaits of main(): every action below is   *)
(* the synchronous code up to and including one external call.             *)
(***************************************************************************)
EXTENDS Integers, Sequences, FiniteSets, TLC

\* Number of runs of the script (pushes) that work against the sheet.
NumRuns == 2

Runs == 1..NumRuns

----------------------------------------------------------------------------
(* JavaScript values.  A cell or an attribute value is a string, a number  *)
(* or undefined; v holds the text of the value.                            *)

Undefined == [t |-> "undefined", v |-> ""]
Str(s) == [t |-> "string", v |-> s]
Num(s) == [t |-> "number", v |-> s]

\* Array indexing, zero-based as in the source: row[i] is undefined past
\* the end.
Cell(row, i) == IF i + 1 <= Len(row) THEN row[i + 1] ELSE Undefined

\* Array.prototype.filter, order preserved.
Filter(seq, Keep(_)) ==
  LET F[i \in 0..Len(seq)] ==
        IF i = 0 THEN <<>>
        ELSE IF Keep(seq[i]) THEN Append(F[i - 1], seq[i])
        ELSE F[i - 1]
  IN F[Len(seq)]

\* Array.prototype.map.
Map(seq, F(_)) == [i \in 1..Len(seq) |-> F(seq[i])]

Range(seq) == {seq[i] : i \in 1..Len(seq)}

----------------------------------------------------------------------------
(* Strings the script takes apart (the output of git diff, file paths) are *)
(* kept as strings in the state and computed on character by character.    *)

Chars ==
  ( "" :> <<>> ) @@
  ( "d" :> <<"d">> ) @@
  ( "n.txt" :> <<"n", ".", "t", "x", "t">> ) @@
  ( "b.jsx" :> <<"b", ".", "j", "s", "x">> ) @@
  ( "a.jsx" :> <<"a", ".", "j", "s", "x">> ) @@
  ( "d/a.jsx" :> <<"d", "/", "a", ".", "j", "s", "x">> ) @@
  ( "c.jsx.md" :> <<"c", ".", "j", "s", "x", ".", "m", "d">> ) @@
  ( "n.txt\n" :> <<"n", ".", "t", "x", "t", "\n">> ) @@
  ( "c.jsx.md\nn.txt\n" :>
      <<"c", ".", "j", "s", "x", ".", "m", "d", "\n",
        "n", ".", "t", "x", "t", "\n">> ) @@
  ( "d/a.jsx\nn.txt\nb.jsx\n" :>
      <<"d", "/", "a", ".", "j", "s", "x", "\n",
        "n", ".", "t", "x", "t", "\n",
        "b", ".", "j", "s", "x", "\n">> )

FromChars(cs) == CHOOSE s \in DOMAIN Chars : Chars[s] = cs

\* String.prototype.split on a one-character separator: "a\n".split("\n")
\* is ["a", ""], and "".split("\n") is [""].
SplitChars(cs, sep) ==
  LET F[i \in 0..Len(cs)] ==
        IF i = 0 THEN << <<>> >>
        ELSE LET parts == F[i - 1]
             IN IF cs[i] = sep THEN Append(parts, <<>>)
                ELSE [parts EXCEPT ![Len(parts)] = Append(@, cs[i])]
  IN F[Len(cs)]

Split(s, sep) == Map(SplitChars(Chars[s], sep), FromChars)

\* String.prototype.endsWith.
EndsWith(s, suffix) ==
  LET cs == Chars[s]
  IN /\ Len(cs) >= Len(suffix)
     /\ SubSeq(cs, Len(cs) - Len(suffix) + 1, Len(cs)) = suffix

\* Boolean(s) of a string: the empty string is falsy.
Truthy(s) == s # ""

\* A slip: the path is tested for holding '.jsx' anywhere.
IsJsxAnywhere(filePath) ==
  LET cs == Chars[filePath]
  IN \E i \in 1..Len(cs) :
       i + 3 <= Len(cs) /\ SubSeq(cs, i, i + 3) = <<".", "j", "s", "x">>

IsJsx(filePath) == EndsWith(filePath, <<".", "j", "s", "x">>)

\* const changedFilePaths = execSync(...).split('\n').filter(Boolean)
ChangedFilePaths(output) == Filter(Split(output, "\n"), Truthy)

\* const jsxFilePaths = changedFilePaths.filter(p => p.endsWith('.jsx'))
JsxFilePaths(output) == Filter(ChangedFilePaths(output), IsJsx)

documentName(filePath) ==
  LET parts == Split(filePath, "/") IN parts[Len(parts)]

----------------------------------------------------------------------------
(* The structure of the sheet.                                             *)

COLUMNS_BY_ID ==
  << [id |-> "uuid", index |-> 0, columnName |-> "A", title |-> "UUID"],
     [id |-> "originalUrl", index |-> 1, columnName |-> "B",
      title |-> "Original URL"],
     [id |-> "comment", index |-> 2, columnName |-> "C", title |-> "Comment"],
     [id |-> "document", index |-> 3, columnName |-> "D",
      title |-> "Document"],
     [id |-> "figmaUrl", index |-> 4, columnName |-> "E",
      title |-> "Figma URL"],
     [id |-> "designReview", index |-> 5, columnName |-> "F",
      title |-> "Design Review"],
     [id |-> "newUrl", index |-> 6, columnName |-> "G",
      title |-> "New URL to add to jsx-images.mathspace.co"],
     [id |-> "editorReview", index |-> 7, columnName |-> "H",
      title |-> "Editor review"],
     [id |-> "addedToWorksheet", index |-> 8, columnName |-> "I",
      title |-> "Added to Worksheet?"] >>

columnIndexFor(columnId) ==
  (CHOOSE c \in Range(COLUMNS_BY_ID) : c.id = columnId).index

\* Object.keys(COLUMNS_BY_ID).length
expectedNumCols == Len(COLUMNS_BY_ID)

createRow(uuid, originalUrl, comment, document) ==
  << uuid, originalUrl, comment, document,
     Str(""), Str("No review"), Str(""), Str("No review"), Str("") >>

----------------------------------------------------------------------------
(* The syntax tree @babel/parser hands to traverse: only the opening       *)
(* elements matter, in the order traverse visits them.                     *)

JSXIdentifier(n) == [type |-> "JSXIdentifier", name |-> n]
JSXMemberExpression(o, p) ==
  [type |-> "JSXMemberExpression", object |-> JSXIdentifier(o),
   property |-> JSXIdentifier(p)]
StringLiteral(s) == [type |-> "StringLiteral", value |-> Str(s)]
NumericLiteral(n) == [type |-> "NumericLiteral", value |-> Num(n)]
NullLiteral == [type |-> "NullLiteral"]
Identifier(n) == [type |-> "Identifier", name |-> n]
JSXEmptyExpression == [type |-> "JSXEmptyExpression"]
JSXExpressionContainer(e) ==
  [type |-> "JSXExpressionContainer", expression |-> e]
\* attr.value of an attribute written without a value (<DraftImage id />)
NullValue == [type |-> "null"]
JSXAttribute(n, val) ==
  [type |-> "JSXAttribute", name |-> JSXIdentifier(n), value |-> val]
\* {...props}: a node of the attributes array that has no name
JSXSpreadAttribute(arg) ==
  [type |-> "JSXSpreadAttribute", argument |-> Identifier(arg)]
JSXOpeningElement(nameNode, attrs) ==
  [type |-> "JSXOpeningElement", name |-> nameNode, attributes |-> attrs]

\* obj.value of a node: undefined when the node has no such property.
ValueOf(node) == IF "value" \in DOMAIN node THEN node.value ELSE Undefined

\* What a call returns, or that it threw.
Returned(val) == [threw |-> FALSE, value |-> val]
Threw == [threw |-> TRUE, value |-> Undefined]

\* attributes.find(a => a.name.name === attributeName): the index of the
\* first attribute of that name, 0 when there is none, and -1 when the
\* callback throws on an attribute without a name before finding one.
FindAttribute(attributes, attributeName) ==
  LET F[i \in 1..(Len(attributes) + 1)] ==
        IF i > Len(attributes) THEN 0
        ELSE IF "name" \notin DOMAIN attributes[i] THEN -1
        ELSE IF attributes[i].name.name = attributeName THEN i
        ELSE F[i + 1]
  IN F[1]

getAttributeValue(attributeName, node) ==
  LET found == FindAttribute(node.attributes, attributeName)
      value == node.attributes[found].value
  IN IF found = -1 THEN Threw
     ELSE IF found = 0 THEN Returned(Undefined)
     ELSE IF value.type = "StringLiteral" THEN Returned(value.value)
     ELSE IF value.type = "JSXExpressionContainer"
          THEN Returned(ValueOf(value.expression))
     ELSE Returned(Undefined)

\* path.node.name.name === 'DraftImage'
IsDraftImage(node) ==
  "name" \in DOMAIN node.name /\ node.name.name = "DraftImage"

\* The JSXOpeningElement visitor on one node: the row it pushes, if any.
VisitOpeningElement(node, filePath) ==
  LET id == getAttributeValue("id", node)
      url == getAttributeValue("url", node)
      notesForImageCreator == getAttributeValue("notesForImageCreator", node)
  IN IF ~IsDraftImage(node) THEN [threw |-> FALSE, rows |-> <<>>]
     ELSE IF id.threw \/ url.threw \/ notesForImageCreator.threw
          THEN [threw |-> TRUE, rows |-> <<>>]
     ELSE [threw |-> FALSE,
           rows |-> << createRow(id.value, url.value,
                                 notesForImageCreator.value,
                                 Str(documentName(filePath))) >>]

\* traverse(ast, {JSXOpeningElement}): the rows pushed, in visiting order,
\* and whether a visit threw (the rows pushed before it stay pushed).
Traverse(ast, filePath) ==
  LET F[i \in 0..Len(ast)] ==
        IF i = 0 THEN [threw |-> FALSE, rows |-> <<>>]
        ELSE LET before == F[i - 1]
                 visit == VisitOpeningElement(ast[i], filePath)
             IN IF before.threw THEN before
                ELSE [threw |-> visit.threw,
                      rows |-> before.rows \o visit.rows]
  IN F[Len(ast)]

----------------------------------------------------------------------------
(* The remote sheet: a sequence of rows, the first being the heading row.  *)
(* sheets.spreadsheets.values.get returns the rows as arrays of cell       *)
(* strings; values.append with valueInputOption RAW writes the given       *)
(* values as raw text after the last row of the table.                     *)

\* What a written value reads back as: text; undefined (sent as null)
\* leaves the cell empty.
StoreCell(val) == IF val.t = "undefined" THEN Str("") ELSE Str(val.v)

StoreRow(row) == Map(row, StoreCell)

\* A slip: values.update at the first data row, written over what is there.
ValuesOverwrite(rows, values) ==
  LET new == Map(values, StoreRow)
  IN IF rows = <<>> THEN new
     ELSE <<rows[1]>> \o new \o SubSeq(rows, Len(new) + 2, Len(rows))

\* sheets.spreadsheets.values.append: the rows after the call.
ValuesAppend(rows, values) == rows \o Map(values, StoreRow)

\* sheets.spreadsheets.values.get on the whole table.
ValuesGet(rows) == rows

\* sheets.spreadsheets.values.get on range 1:1, the heading row.
ValuesGetFirstRow(rows) == IF rows = <<>> THEN <<>> ELSE <<rows[1]>>

\* The errors a run can end with, as printed by console.error.
Error(kind) ==
  [kind |-> kind, expectedNumCols |-> -1, actualNumCols |-> -1,
   index |-> -1, expectedTitle |-> Undefined, actualTitle |-> Undefined]

NoError == Error("none")

\* row.length of a response without a first row.
LengthOfUndefined == "TypeError: Cannot read property 'length' of undefined"

\* a.name.name of an attribute without a name.
NameOfUndefined == "TypeError: Cannot read property 'name' of undefined"

ColumnCountError(expected, actual) ==
  [Error("column count") EXCEPT !.expectedNumCols = expected,
                                !.actualNumCols = actual]

ColumnTitleError(i, expected, actual) ==
  [Error("column title") EXCEPT !.index = i, !.expectedTitle = expected,
                                !.actualTitle = actual]

\* The forEach over Object.values(COLUMNS_BY_ID): it throws at the first
\* column, in schema order, whose remote title differs.
FirstTitleError(row) ==
  LET F[i \in 0..expectedNumCols] ==
        IF i = expectedNumCols THEN NoError
        ELSE IF Cell(row, i) # Str(COLUMNS_BY_ID[i + 1].title)
             THEN ColumnTitleError(i, Str(COLUMNS_BY_ID[i + 1].title),
                                   Cell(row, i))
        ELSE F[i + 1]
  IN F[0]

\* A slip: the number of columns is not compared.
validateTitlesOnly(values) ==
  IF values = <<>> THEN Error(LengthOfUndefined)
  ELSE FirstTitleError(values[1])

\* validateSheetStructure on the values of the response: the error it
\* throws, NoError when it returns.
validateSheetStructure(values) ==
  IF values = <<>> THEN Error(LengthOfUndefined)
  ELSE LET row == values[1]
       IN IF Len(row) # expectedNumCols
          THEN ColumnCountError(expectedNumCols, Len(row))
          ELSE FirstTitleError(row)

\* Array.prototype.slice(1): the rows after the heading row.
Slice1(values) == IF values = <<>> THEN <<>> ELSE Tail(values)

\* A slip: the ids are taken from the column of the url.
IdsListOfUrlColumn(values) == Map(Slice1(values), LAMBDA row : Cell(row, 1))

\* const idsList = getResponse.data.values.slice(1).map(row => row[0])
IdsList(values) == Map(Slice1(values), LAMBDA row : Cell(row, 0))

\* A slip: a candidate is also dropped when an earlier candidate has its id.
RowsToAppendUnique(candidates, values) ==
  LET ids == Range(IdsList(values))
      F[i \in 0..Len(candidates)] ==
        IF i = 0 THEN <<>>
        ELSE IF \/ Cell(candidates[i], 0) \in ids
                \/ \E j \in 1..(i - 1) :
                     Cell(candidates[j], 0) = Cell(candidates[i], 0)
             THEN F[i - 1]
        ELSE Append(F[i - 1], candidates[i])
  IN F[Len(candidates)]

\* maybeRowsToAppend.filter(row => !ids.has(row[columnIndexFor('uuid')]))
RowsToAppend(candidates, values) ==
  LET ids == Range(IdsList(values))
      IsNew(row) == Cell(row, columnIndexFor("uuid")) \notin ids
  IN Filter(candidates, IsNew)

\* A slip: the ids are compared with the rows appended, not with all the
\* rows found.
MissingIdsOfAppended(candidates, values) ==
  LET appended == RowsToAppend(candidates, values)
      idsAppended == Range(Map(appended, LAMBDA row : Cell(row, 0)))
      Unactioned(row) == Cell(row, 8) # Str("TRUE")
      IsMissing(id) == id \notin idsAppended
  IN Filter(Map(Filter(Slice1(values), Unactioned),
                LAMBDA row : Cell(row, 0)), IsMissing)

\* The ids of the rows of the sheet that are not marked as added to a
\* worksheet and that no <DraftImage> of this run has.
MissingIds(candidates, values) ==
  LET idsFromWorksheets ==
        Range(Map(candidates,
                  LAMBDA row : Cell(row, columnIndexFor("uuid"))))
      Unactioned(row) ==
        Cell(row, columnIndexFor("addedToWorksheet")) # Str("TRUE")
      unactionedIdsFromSpreadsheet ==
        Map(Filter(Slice1(values), Unactioned), LAMBDA row : Cell(row, 0))
      IsMissing(id) == id \notin idsFromWorksheets
  IN Filter(unactionedIdsFromSpreadsheet, IsMissing)

----------------------------------------------------------------------------
(* The inputs of a run.                                                    *)

\* What git diff --name-only can print.
DiffOutputs ==
  << "", "n.txt\n", "c.jsx.md\nn.txt\n", "d/a.jsx\nn.txt\nb.jsx\n" >>

DraftImage(attrs) == JSXOpeningElement(JSXIdentifier("DraftImage"), attrs)

\* <DraftImage id="..." url="u" notesForImageCreator="n" />
LiteralImage(id) ==
  DraftImage(<< JSXAttribute("id", StringLiteral(id)),
                JSXAttribute("url", StringLiteral("u")),
                JSXAttribute("notesForImageCreator", StringLiteral("n")) >>)

\* <DraftImage url={src} id={"..."} />
ExpressionImage(id) ==
  DraftImage(<< JSXAttribute("url",
                             JSXExpressionContainer(Identifier("src"))),
                JSXAttribute("id",
                             JSXExpressionContainer(StringLiteral(id))) >>)

\* <DraftImage id={7} url notesForImageCreator={null} />
NumericImage ==
  DraftImage(<< JSXAttribute("id",
                             JSXExpressionContainer(NumericLiteral("7"))),
                JSXAttribute("url", NullValue),
                JSXAttribute("notesForImageCreator",
                             JSXExpressionContainer(NullLiteral)) >>)

\* <DraftImage id={imageId} notesForImageCreator={} />
ComputedImage ==
  DraftImage(<< JSXAttribute("id",
                             JSXExpressionContainer(Identifier("imageId"))),
                JSXAttribute("notesForImageCreator",
                             JSXExpressionContainer(JSXEmptyExpression)) >>)

\* <DraftImage id="..." url="u" notesForImageCreator="n" {...props} />
TrailingSpreadImage(id) ==
  DraftImage(<< JSXAttribute("id", StringLiteral(id)),
                JSXAttribute("url", StringLiteral("u")),
                JSXAttribute("notesForImageCreator", StringLiteral("n")),
                JSXSpreadAttribute("props") >>)

\* <DraftImage {...props} id="..." />
LeadingSpreadImage(id) ==
  DraftImage(<< JSXSpreadAttribute("props"),
                JSXAttribute("id", StringLiteral(id)) >>)

\* <div id="A">
Div == JSXOpeningElement(JSXIdentifier("div"),
                         << JSXAttribute("id", StringLiteral("A")) >>)

\* <Images.DraftImage id="A">
MemberImage ==
  JSXOpeningElement(JSXMemberExpression("Images", "DraftImage"),
                    << JSXAttribute("id", StringLiteral("A")) >>)

\* The files a run can find at a changed path, as parsed.
Asts ==
  << << Div, LiteralImage("A"), ExpressionImage("C"),
        TrailingSpreadImage("C") >>,
     << NumericImage, MemberImage, ComputedImage, LiteralImage("B") >>,
     << LiteralImage("B"), LeadingSpreadImage("C") >> >>

GoodHeader == Map(COLUMNS_BY_ID, LAMBDA c : Str(c.title))

\* A row of the sheet as people keep it.
SheetRow(id, added) ==
  << Str(id), Str("u"), Str(""), Str("a.jsx"), Str(""), Str("No review"),
     Str(""), Str("No review"), Str(added) >>

ExistingRows ==
  << SheetRow("A", "TRUE"), SheetRow("B", ""), << Str("X"), Str("u") >>,
     SheetRow("Y", "TRUE") >>

\* The sheets a run can meet: the table as expected, empty or with rows,
\* and the ways people break its heading row.
InitialSheets ==
  << << GoodHeader >>,
     << GoodHeader >> \o ExistingRows,
     << >>,
     << SubSeq(GoodHeader, 1, 8) >> \o ExistingRows,
     << Append(GoodHeader, Str("Notes")) >>,
     << [GoodHeader EXCEPT ![4] = Str("Doc"), ![7] = Str("New URL")] >>
       \o ExistingRows,
     << [GoodHeader EXCEPT ![1] = Str("Original URL"), ![2] = Str("UUID")] >> >>

----------------------------------------------------------------------------
(* The state: the sheet, and every run's variables and output.             *)

VARIABLES
  sheet,              \* the rows of the remote sheet
  pc,                 \* where each run is
  changedFilePaths,   \* the paths git diff printed
  jsxFilePaths,       \* the changed .jsx files of the run
  fileIdx,            \* the file the for loop is at
  ast,                \* the tree of the file last parsed
  maybeRowsToAppend,  \* the rows of the <DraftImage>s found so far
  getResponse,        \* getResponse.data.values of the read of the table
  rowsToAppend,       \* the rows the run appends
  calls,              \* the requests the run has sent to the sheet
  errorLog,           \* console.error
  warnLog,            \* console.warn: the ids warned about
  infoLog,            \* console.log: the number of rows in the message
  exitCode            \* the exit status, -1 while the run is going

vars ==
  << sheet, pc, changedFilePaths, jsxFilePaths, fileIdx,
     ast, maybeRowsToAppend, getResponse, rowsToAppend, calls,
     errorLog, warnLog, infoLog, exitCode >>

Request(op, values) == [op |-> op, values |-> values]

Init ==
  /\ \E i \in 1..Len(InitialSheets) : sheet = InitialSheets[i]
  /\ pc = [r \in Runs |-> "diff"]
  /\ changedFilePaths = [r \in Runs |-> <<>>]
  /\ jsxFilePaths = [r \in Runs |-> <<>>]
  /\ fileIdx = [r \in Runs |-> 0]
  /\ ast = [r \in Runs |-> <<>>]
  /\ maybeRowsToAppend = [r \in Runs |-> <<>>]
  /\ getResponse = [r \in Runs |-> <<>>]
  /\ rowsToAppend = [r \in Runs |-> <<>>]
  /\ calls = [r \in Runs |-> <<>>]
  /\ errorLog = [r \in Runs |-> <<>>]
  /\ warnLog = [r \in Runs |-> <<>>]
  /\ infoLog = [r \in Runs |-> <<>>]
  /\ exitCode = [r \in Runs |-> -1]

\* A slip: the error is printed and the process ends as if all went well.
CatchLogsOnly(r, error) ==
  /\ errorLog' = [errorLog EXCEPT ![r] = Append(@, error)]
  /\ exitCode' = [exitCode EXCEPT ![r] = 0]
  /\ pc' = [pc EXCEPT ![r] = "exited"]

\* main().catch: the error is printed and the process exits with status 1.
Catch(r, error) ==
  /\ errorLog' = [errorLog EXCEPT ![r] = Append(@, error)]
  /\ exitCode' = [exitCode EXCEPT ![r] = 1]
  /\ pc' = [pc EXCEPT ![r] = "exited"]

\* main() returns: nothing is left to do and the process exits with status 0.
Return(r) ==
  /\ exitCode' = [exitCode EXCEPT ![r] = 0]
  /\ pc' = [pc EXCEPT ![r] = "exited"]
  /\ UNCHANGED errorLog

\* execSync('git diff ...') throws: the older commit is not in the clone.
DiffFails(r) ==
  /\ pc[r] = "diff"
  /\ Catch(r, Error("git diff failed"))
  /\ UNCHANGED << sheet, changedFilePaths, jsxFilePaths, fileIdx, ast,
                  maybeRowsToAppend, getResponse, rowsToAppend, calls,
                  warnLog, infoLog >>

\* The diff, the filter on '.jsx', and the early return.
Diff(r) ==
  /\ pc[r] = "diff"
  /\ \E i \in 1..Len(DiffOutputs) :
       LET paths == JsxFilePaths(DiffOutputs[i])
       IN /\ changedFilePaths' =
               [changedFilePaths EXCEPT ![r] = ChangedFilePaths(DiffOutputs[i])]
          /\ jsxFilePaths' = [jsxFilePaths EXCEPT ![r] = paths]
          /\ IF Len(paths) = 0
             THEN Return(r)
             ELSE /\ pc' = [pc EXCEPT ![r] = "validate"]
                  /\ UNCHANGED << errorLog, exitCode >>
  /\ UNCHANGED << sheet, fileIdx, ast, maybeRowsToAppend, getResponse,
                  rowsToAppend, calls, warnLog, infoLog >>

\* The request for the heading row fails (the network, the credentials).
ValidateRequestFails(r) ==
  /\ pc[r] = "validate"
  /\ calls' = [calls EXCEPT ![r] = Append(@, Request("get 1:1", <<>>))]
  /\ Catch(r, Error("request failed"))
  /\ UNCHANGED << sheet, changedFilePaths, jsxFilePaths, fileIdx, ast,
                  maybeRowsToAppend, getResponse, rowsToAppend, warnLog,
                  infoLog >>

\* await validateSheetStructure(sheets)
Validate(r) ==
  /\ pc[r] = "validate"
  /\ calls' = [calls EXCEPT ![r] = Append(@, Request("get 1:1", <<>>))]
  /\ LET error == validateSheetStructure(ValuesGetFirstRow(sheet))
     IN IF error # NoError
        THEN Catch(r, error) /\ UNCHANGED fileIdx
        ELSE /\ pc' = [pc EXCEPT ![r] = "parse"]
             /\ fileIdx' = [fileIdx EXCEPT ![r] = 1]
             /\ UNCHANGED << errorLog, exitCode >>
  /\ UNCHANGED << sheet, changedFilePaths, jsxFilePaths, ast,
                  maybeRowsToAppend, getResponse, rowsToAppend, warnLog,
                  infoLog >>

\* fs.readFileSync throws (a file the push deleted) or parser.parse throws.
ParseFails(r) ==
  /\ pc[r] = "parse"
  /\ \E kind \in {"ENOENT", "SyntaxError"} : Catch(r, Error(kind))
  /\ UNCHANGED << sheet, changedFilePaths, jsxFilePaths, fileIdx, ast,
                  maybeRowsToAppend, getResponse, rowsToAppend, calls,
                  warnLog, infoLog >>

\* A slip: the rows of a file are appended as soon as the file is traversed.
ParseFileAppending(r) ==
  /\ pc[r] = "parse"
  /\ \E i \in 1..Len(Asts) :
       LET filePath == jsxFilePaths[r][fileIdx[r]]
           visited == Traverse(Asts[i], filePath)
       IN /\ ast' = [ast EXCEPT ![r] = Asts[i]]
          /\ maybeRowsToAppend' =
               [maybeRowsToAppend EXCEPT ![r] = @ \o visited.rows]
          /\ calls' = [calls EXCEPT ![r] =
                         Append(@, Request("append", visited.rows))]
          /\ sheet' = ValuesAppend(sheet, visited.rows)
          /\ IF visited.threw
             THEN Catch(r, Error(NameOfUndefined)) /\ UNCHANGED fileIdx
             ELSE /\ fileIdx' = [fileIdx EXCEPT ![r] = @ + 1]
                  /\ pc' = [pc EXCEPT ![r] =
                              IF fileIdx[r] < Len(jsxFilePaths[r])
                              THEN "parse" ELSE "read"]
                  /\ UNCHANGED << errorLog, exitCode >>
  /\ UNCHANGED << changedFilePaths, jsxFilePaths, getResponse, rowsToAppend,
                  warnLog, infoLog >>

\* One turn of the for loop: the file is read, parsed and traversed.
ParseFile(r) ==
  /\ pc[r] = "parse"
  /\ \E i \in 1..Len(Asts) :
       LET filePath == jsxFilePaths[r][fileIdx[r]]
           visited == Traverse(Asts[i], filePath)
       IN /\ ast' = [ast EXCEPT ![r] = Asts[i]]
          /\ maybeRowsToAppend' =
               [maybeRowsToAppend EXCEPT ![r] = @ \o visited.rows]
          /\ IF visited.threw
             THEN Catch(r, Error(NameOfUndefined)) /\ UNCHANGED fileIdx
             ELSE /\ fileIdx' = [fileIdx EXCEPT ![r] = @ + 1]
                  /\ pc' = [pc EXCEPT ![r] =
                              IF fileIdx[r] < Len(jsxFilePaths[r])
                              THEN "parse" ELSE "read"]
                  /\ UNCHANGED << errorLog, exitCode >>
  /\ UNCHANGED << sheet, changedFilePaths, jsxFilePaths, getResponse,
                  rowsToAppend, calls, warnLog, infoLog >>

\* The request for the rows of the table fails.
ReadRequestFails(r) ==
  /\ pc[r] = "read"
  /\ calls' = [calls EXCEPT ![r] = Append(@, Request("get", <<>>))]
  /\ Catch(r, Error("request failed"))
  /\ UNCHANGED << sheet, changedFilePaths, jsxFilePaths, fileIdx, ast,
                  maybeRowsToAppend, getResponse, rowsToAppend, warnLog,
                  infoLog >>

\* The rows of the table are read and the rows to append are chosen.
ReadRows(r) ==
  /\ pc[r] = "read"
  /\ calls' = [calls EXCEPT ![r] = Append(@, Request("get", <<>>))]
  /\ LET values == ValuesGet(sheet)
     IN /\ getResponse' = [getResponse EXCEPT ![r] = values]
        /\ rowsToAppend' =
             [rowsToAppend EXCEPT ![r] =
                RowsToAppend(maybeRowsToAppend[r], values)]
  /\ pc' = [pc EXCEPT ![r] = "append"]
  /\ UNCHANGED << errorLog, exitCode >>
  /\ UNCHANGED << sheet, changedFilePaths, jsxFilePaths, fileIdx, ast,
                  maybeRowsToAppend, warnLog, infoLog >>

\* The append request fails: the sheet is left as it is.
AppendRequestFails(r) ==
  /\ pc[r] = "append"
  /\ calls' = [calls EXCEPT ![r] =
                 Append(@, Request("append", rowsToAppend[r]))]
  /\ Catch(r, Error("request failed"))
  /\ UNCHANGED << sheet, changedFilePaths, jsxFilePaths, fileIdx, ast,
                  maybeRowsToAppend, getResponse, rowsToAppend, warnLog,
                  infoLog >>

\* A slip that is a lock: only the rows whose id the sheet still lacks at
\* the time of the append are written.
AppendRowsIfAbsent(r) ==
  /\ pc[r] = "append"
  /\ calls' = [calls EXCEPT ![r] =
                 Append(@, Request("append", rowsToAppend[r]))]
  /\ sheet' = ValuesAppend(sheet, RowsToAppend(rowsToAppend[r], sheet))
  /\ pc' = [pc EXCEPT ![r] = "report"]
  /\ UNCHANGED << changedFilePaths, jsxFilePaths, fileIdx, ast,
                  maybeRowsToAppend, getResponse, rowsToAppend, errorLog,
                  warnLog, infoLog, exitCode >>

\* await sheets.spreadsheets.values.append(...)
AppendRows(r) ==
  /\ pc[r] = "append"
  /\ calls' = [calls EXCEPT ![r] =
                 Append(@, Request("append", rowsToAppend[r]))]
  /\ sheet' = ValuesAppend(sheet, rowsToAppend[r])
  /\ pc' = [pc EXCEPT ![r] = "report"]
  /\ UNCHANGED << changedFilePaths, jsxFilePaths, fileIdx, ast,
                  maybeRowsToAppend, getResponse, rowsToAppend, errorLog,
                  warnLog, infoLog, exitCode >>

\* The warning about the ids no document has, and the success message.
Report(r) ==
  /\ pc[r] = "report"
  /\ LET missingIds == MissingIds(maybeRowsToAppend[r], getResponse[r])
     IN warnLog' = [warnLog EXCEPT ![r] =
                      IF Len(missingIds) > 0 THEN Append(@, missingIds) ELSE @]
  /\ infoLog' = [infoLog EXCEPT ![r] = Append(@, Len(rowsToAppend[r]))]
  /\ Return(r)
  /\ UNCHANGED << sheet, changedFilePaths, jsxFilePaths, fileIdx, ast,
                  maybeRowsToAppend, getResponse, rowsToAppend, calls >>

Next ==
  \E r \in Runs :
    \/ DiffFails(r)
    \/ Diff(r)
    \/ ValidateRequestFails(r)
    \/ Validate(r)
    \/ ParseFails(r)
    \/ ParseFile(r)
    \/ ReadRequestFails(r)
    \/ ReadRows(r)
    \/ AppendRequestFails(r)
    \/ AppendRows(r)
    \/ Report(r)

Spec == Init /\ [][Next]_vars

----------------------------------------------------------------------------
(* What the properties below speak of.                                     *)

\* The append of run r went through.
Appended(r) ==
  pc[r] = "report" \/ (pc[r] = "exited" /\ infoLog[r] # <<>>)

\* Run r ended with an error of this kind.
FailedWith(r, kind) ==
  exitCode[r] = 1 /\ errorLog[r] # <<>> /\ errorLog[r][1].kind = kind

\* Run r ended because its append request failed.
AppendFailed(r) ==
  /\ FailedWith(r, "request failed")
  /\ calls[r] # <<>>
  /\ calls[r][Len(calls[r])].op = "append"

\* The ids in column 0 of the rows after the heading row.
DataIds(values) == {Cell(values[k], 0) : k \in 2..Len(values)}

CandidateIds(r) ==
  {maybeRowsToAppend[r][i][1] : i \in 1..Len(maybeRowsToAppend[r])}

\* How many of the rows have this id, and how many rows of the sheet do.
CountIn(rows, id) == Cardinality({i \in 1..Len(rows) : rows[i][1] = id})
CountInSheet(id) ==
  Cardinality({k \in 2..Len(sheet) : Cell(sheet[k], 0) = id})

AllStringIds(rows) == \A i \in 1..Len(rows) : rows[i][1].t = "string"

----------------------------------------------------------------------------
(* C1: the rows passed to the append call are exactly the candidate rows,  *)
(* in the order they were found, whose id is not in column 0 of a data row *)
(* read from the sheet in that run; candidates are not compared with each  *)
(* other, so two candidates with the same new id are both passed.          *)
C1_AppendedBatch ==
  \A r \in Runs : \A k \in 1..Len(calls[r]) :
    calls[r][k].op = "append" =>
      calls[r][k].values =
        SelectSeq(maybeRowsToAppend[r],
                  LAMBDA row :
                    \A j \in 2..Len(getResponse[r]) :
                      Cell(getResponse[r][j], 0) # row[1])

\* A run has appended two rows of one new id and held back a known one.
C1_Witness ==
  \E r \in Runs : \E k \in 1..Len(calls[r]) :
    LET batch == calls[r][k].values
    IN /\ calls[r][k].op = "append"
       /\ Len(batch) < Len(maybeRowsToAppend[r])
       /\ \E i, j \in 1..Len(batch) :
            /\ i < j
            /\ batch[i][1] = batch[j][1]
            /\ batch[i][1] \notin DataIds(getResponse[r])

(* C2: the ids warned about are, in the order of the rows of the sheet,    *)
(* the ids of the data rows read whose "Added to Worksheet?" cell is not   *)
(* 'TRUE' and whose id no candidate of the run has, appended or not; the   *)
(* warning is printed exactly when there is such an id, and the run ends   *)
(* with status 0 either way.                                               *)
C2_WarnedIds ==
  \A r \in Runs :
    (pc[r] = "exited" /\ infoLog[r] # <<>>) =>
      LET values == getResponse[r]
          dataRows == [k \in 1..(Len(values) - 1) |-> values[k + 1]]
          warned ==
            SelectSeq(dataRows,
                      LAMBDA row :
                        /\ Cell(row, 8) # Str("TRUE")
                        /\ Cell(row, 0) \notin CandidateIds(r))
          expected == [i \in 1..Len(warned) |-> Cell(warned[i], 0)]
      IN /\ warnLog[r] = IF expected = <<>> THEN <<>> ELSE <<expected>>
         /\ exitCode[r] = 0

\* A run has warned about X and not about B, an open row it has an image of.
C2_Witness ==
  \E r \in Runs :
    /\ pc[r] = "exited"
    /\ warnLog[r] = << << Str("X") >> >>
    /\ Str("B") \in CandidateIds(r)
    /\ \E k \in 2..Len(getResponse[r]) :
         /\ Cell(getResponse[r][k], 0) = Str("B")
         /\ Cell(getResponse[r][k], 8) # Str("TRUE")

(* C3: a run that fails for any reason but a failed append (the diff, a    *)
(* file that cannot be read or parsed, the heading row, a failed read) has *)
(* sent no append, and the sheet changes only in the step of a run whose   *)
(* append goes through.                                                    *)
C3_AbortsBeforeMutation ==
  /\ [](\A r \in Runs :
          (exitCode[r] = 1 /\ ~AppendFailed(r)) =>
            \A k \in 1..Len(calls[r]) : calls[r][k].op # "append")
  /\ [][sheet' # sheet =>
          \E r \in Runs :
            pc[r] = "append" /\ pc'[r] = "report" /\ exitCode'[r] = -1]_vars

\* A run has found images and then failed on a file it cannot parse.
C3_Witness ==
  \E r \in Runs :
    /\ FailedWith(r, "SyntaxError")
    /\ maybeRowsToAppend[r] # <<>>
    /\ Len(calls[r]) = 1

\* Whether the path ends in '.jsx', said of its last four characters.
HasJsxExtension(path) ==
  LET cs == Chars[path]
      n == Len(cs)
  IN /\ n >= 4
     /\ cs[n - 3] = "." /\ cs[n - 2] = "j" /\ cs[n - 1] = "s" /\ cs[n] = "x"

(* C4: when the diff goes through and no changed path ends in '.jsx', the  *)
(* run ends with status 0 and has sent no request to the sheet.            *)
C4_NothingToDo ==
  \A r \in Runs :
    ( /\ pc[r] # "diff"
      /\ ~FailedWith(r, "git diff failed")
      /\ \A i \in 1..Len(changedFilePaths[r]) :
           ~HasJsxExtension(changedFilePaths[r][i]) ) =>
      /\ pc[r] = "exited"
      /\ exitCode[r] = 0
      /\ errorLog[r] = <<>>
      /\ calls[r] = <<>>

\* A run has ended so on a diff that names c.jsx.md and n.txt.
C4_Witness ==
  \E r \in Runs :
    /\ changedFilePaths[r] = << "c.jsx.md", "n.txt" >>
    /\ pc[r] = "exited"
    /\ exitCode[r] = 0
    /\ calls[r] = <<>>

\* The titles of the sheet, in order.
ExpectedTitles ==
  << "UUID", "Original URL", "Comment", "Document", "Figma URL",
     "Design Review", "New URL to add to jsx-images.mathspace.co",
     "Editor review", "Added to Worksheet?" >>

\* Run r has the answer to its request for the heading row.
HeaderFetched(r) ==
  /\ calls[r] # <<>>
  /\ ~(Len(calls[r]) = 1 /\ FailedWith(r, "request failed"))

\* validateSheetStructure has returned in run r.
ValidationPassed(r) ==
  \/ pc[r] \in {"parse", "read", "append", "report"}
  \/ /\ pc[r] = "exited"
     /\ \/ exitCode[r] = 0
        \/ Len(calls[r]) > 1
        \/ \E kind \in {"ENOENT", "SyntaxError", NameOfUndefined} :
             FailedWith(r, kind)

(* C5: validateSheetStructure returns exactly when the first row fetched   *)
(* has nine cells, each the expected title of its column; otherwise the    *)
(* run fails: with the expected and the actual number of columns when the  *)
(* number is not nine, whatever the titles, and with the lowest column     *)
(* whose title differs, the expected and the actual title, when it is.     *)
C5_ValidateSheetStructure ==
  \A r \in Runs :
    (HeaderFetched(r) /\ sheet # <<>>) =>
      LET row == sheet[1]
          wrong == {i \in 1..9 : i > Len(row) \/ row[i] # Str(ExpectedTitles[i])}
          first == CHOOSE i \in wrong : \A j \in wrong : i <= j
      IN /\ ValidationPassed(r) <=> (Len(row) = 9 /\ wrong = {})
         /\ ~ValidationPassed(r) => exitCode[r] = 1 /\ Len(errorLog[r]) = 1
         /\ (~ValidationPassed(r) /\ Len(row) # 9) =>
              /\ errorLog[r][1].kind = "column count"
              /\ errorLog[r][1].expectedNumCols = 9
              /\ errorLog[r][1].actualNumCols = Len(row)
         /\ (~ValidationPassed(r) /\ Len(row) = 9) =>
              /\ errorLog[r][1].kind = "column title"
              /\ errorLog[r][1].index = first - 1
              /\ errorLog[r][1].expectedTitle = Str(ExpectedTitles[first])
              /\ errorLog[r][1].actualTitle = row[first]

\* A run has failed on the first of the two wrong titles of a heading row.
C5_Witness ==
  \E r \in Runs :
    /\ FailedWith(r, "column title")
    /\ errorLog[r][1].index = 3
    /\ errorLog[r][1].actualTitle = Str("Doc")
    /\ sheet[1][7] # Str(ExpectedTitles[7])

\* The text a value is written as.
TextOf(val) == [t |-> "string", v |-> val.v]

(* C6: the sheet is changed only by appending: in every step the rows that *)
(* were there stay, unchanged and in their order, and a step that changes  *)
(* the sheet is the append of a run, which adds the rows of its request,   *)
(* in order, after them.                                                   *)
C6_AppendOnly ==
  [][ \/ sheet' = sheet
      \/ \E r \in Runs :
           /\ pc[r] = "append"
           /\ Len(sheet') = Len(sheet) + Len(rowsToAppend[r])
           /\ SubSeq(sheet', 1, Len(sheet)) = sheet
           /\ \A i \in 1..Len(rowsToAppend[r]) :
                /\ Len(sheet'[Len(sheet) + i]) = 9
                /\ \A j \in 1..9 :
                     sheet'[Len(sheet) + i][j] = TextOf(rowsToAppend[r][i][j])
    ]_vars

\* A run has appended rows after the rows it read, which are still there.
C6_Witness ==
  \E r \in Runs :
    /\ pc[r] = "report"
    /\ rowsToAppend[r] # <<>>
    /\ Len(getResponse[r]) > 1
    /\ Len(sheet) >= Len(getResponse[r]) + Len(rowsToAppend[r])
    /\ SubSeq(sheet, 1, Len(getResponse[r])) = getResponse[r]

(* C7: a run exits with status 0 when it had nothing to do or got through  *)
(* the append and the report, and with status 1, its one error printed,    *)
(* when a step failed; no request is sent twice.                           *)
C7_ExitStatus ==
  \A r \in Runs :
    /\ exitCode[r] \in {0, 1} <=> pc[r] = "exited"
    /\ pc[r] # "exited" => (exitCode[r] = -1 /\ errorLog[r] = <<>>)
    /\ exitCode[r] = 1 <=> errorLog[r] # <<>>
    /\ Len(errorLog[r]) <= 1
    /\ exitCode[r] = 0 =>
         \/ jsxFilePaths[r] = <<>> /\ calls[r] = <<>> /\ infoLog[r] = <<>>
         \/ /\ Len(infoLog[r]) = 1
            /\ Len(calls[r]) = 3
            /\ calls[r][3].op = "append"
    /\ \A i, j \in 1..Len(calls[r]) : i < j => calls[r][i].op # calls[r][j].op

\* A run has exited with status 1 on a failed append, sent once.
C7_Witness ==
  \E r \in Runs :
    /\ AppendFailed(r)
    /\ Len(calls[r]) = 3
    /\ infoLog[r] = <<>>

\* The first attribute of the element that has this name, if it has one.
NamedAttributes(node, attributeName) ==
  SelectSeq(node.attributes,
            LAMBDA a : a.type = "JSXAttribute" /\ a.name.name = attributeName)

\* What the claim says of one attribute of an element and the cell of it.
C8_CellAsClaimed(node, attributeName, cell) ==
  LET named == NamedAttributes(node, attributeName)
      value == named[1].value
  IN named # <<>> =>
       /\ value.type = "StringLiteral" => cell = value.value
       /\ ( /\ value.type = "JSXExpressionContainer"
            /\ value.expression.type \notin {"StringLiteral", "NumericLiteral"}
          ) => cell = Undefined

(* C8: for every <DraftImage> of a file the run has traversed, extraction  *)
(* does not throw and the run has one candidate row for it, in which an    *)
(* attribute given as a literal string is that string and one given as an  *)
(* expression that is not a literal is undefined.                          *)
C8_ExtractionNeverThrows ==
  \A r \in Runs :
    ast[r] # <<>> =>
      LET images ==
            SelectSeq(ast[r],
                      LAMBDA node :
                        node.name.type = "JSXIdentifier"
                        /\ node.name.name = "DraftImage")
          n == Len(images)
          m == Len(maybeRowsToAppend[r])
      IN /\ ~FailedWith(r, NameOfUndefined)
         /\ m >= n
         /\ \A j \in 1..n :
              LET row == maybeRowsToAppend[r][m - n + j]
              IN /\ C8_CellAsClaimed(images[j], "id", row[1])
                 /\ C8_CellAsClaimed(images[j], "url", row[2])
                 /\ C8_CellAsClaimed(images[j], "notesForImageCreator", row[3])

(* C9: nothing stands between the read of a run and its append: when two   *)
(* runs have both read the sheet without an id that both have an image of, *)
(* and both have appended, the sheet has a row of that id for every such   *)
(* image of either run, so at least two.                                   *)
C9_DoubleAppend ==
  \A r1, r2 \in Runs :
    (r1 # r2 /\ Appended(r1) /\ Appended(r2)) =>
      \A id \in CandidateIds(r1) \cap CandidateIds(r2) :
        ( /\ id.t = "string"
          /\ id \notin DataIds(getResponse[r1])
          /\ id \notin DataIds(getResponse[r2]) ) =>
          /\ CountInSheet(id) >= CountIn(maybeRowsToAppend[r1], id)
                                   + CountIn(maybeRowsToAppend[r2], id)
          /\ CountInSheet(id) >= 2

\* Two runs have read the same rows, each has one image of an id not among
\* them, and the sheet has two rows of that id.
C9_Witness ==
  \E r1, r2 \in Runs :
    /\ r1 # r2 /\ Appended(r1) /\ Appended(r2)
    /\ getResponse[r1] = getResponse[r2]
    /\ \E id \in CandidateIds(r1) \cap CandidateIds(r2) :
         /\ id.t = "string"
         /\ id \notin DataIds(getResponse[r1])
         /\ CountIn(maybeRowsToAppend[r1], id) = 1
         /\ CountIn(maybeRowsToAppend[r2], id) = 1
         /\ CountInSheet(id) = 2

(* C10: after the append of a run every id of its candidates that is a     *)
(* string is in column 0 of the sheet; and a run that reads the sheet once *)
(* another run, of the same candidates, all of string ids, has ended well, *)
(* finds nothing to append, and its append leaves the sheet as it is.      *)
C10_Idempotent ==
  /\ [](\A r \in Runs :
          Appended(r) =>
            \A id \in CandidateIds(r) :
              id.t = "string" => id \in DataIds(sheet))
  /\ [][\A r2 \in Runs :
          /\ ( /\ pc[r2] = "read" /\ pc'[r2] = "append"
               /\ AllStringIds(maybeRowsToAppend[r2])
               /\ \E r1 \in Runs :
                    /\ r1 # r2
                    /\ pc[r1] = "exited" /\ exitCode[r1] = 0
                    /\ infoLog[r1] # <<>>
                    /\ maybeRowsToAppend[r1] = maybeRowsToAppend[r2] ) =>
                 rowsToAppend'[r2] = <<>>
          /\ ( /\ pc[r2] = "append" /\ pc'[r2] = "report"
               /\ rowsToAppend[r2] = <<>> ) =>
                 sheet' = sheet
       ]_vars

\* A run has appended rows, and a run of the same candidates that read the
\* sheet after it has appended none.
C10_Witness ==
  \E r1, r2 \in Runs :
    /\ r1 # r2
    /\ pc[r1] = "exited" /\ infoLog[r1] # <<>> /\ infoLog[r1][1] > 0
    /\ maybeRowsToAppend[r1] = maybeRowsToAppend[r2]
    /\ maybeRowsToAppend[r1] # <<>>
    /\ AllStringIds(maybeRowsToAppend[r1])
    /\ pc[r2] = "exited" /\ infoLog[r2] = <<0>>
    /\ Len(getResponse[r2]) = Len(sheet)

=============================================================================
